---- MODULE Spec2Model ----
(***************************************************************************)
(* A model of the request-execution core of the twitch-helix client:       *)
(* the credential store (Credentials), the token authority                 *)
(* (Client::get_oauth_token), the request executor (Client::get_raw) and   *)
(* the cursor-pagination stream (paginated::stream).                       *)
(*                                                                         *)
(* Every task is one caller holding a &Client.  A task's position (pc) is  *)
(* the await point its future is suspended at; the steps between two await *)
(* points are taken at once.  The server is the environment: it answers    *)
(* every request with any outcome.                                         *)
(***************************************************************************)
EXTENDS Integers, Sequences, FiniteSets, TLC

\* ------------------------------------------------------------------ bounds
NumTasks == 2
MaxCalls == 2
MaxTime == 1
MaxPages == 3
MaxPageLen == 2
NumItems == 2

Tasks == 1..NumTasks
Items == 1..NumItems

\* ------------------------------------------------------------------ values
\* Option<T>
None == [some |-> FALSE]
Some(x) == [some |-> TRUE, v |-> x]

\* Result<T, Error>
Ok(x) == [ok |-> TRUE, v |-> x]
Err(e) == [ok |-> FALSE, e |-> e]

\* StatusCode::UNAUTHORIZED
UNAUTHORIZED == 401

\* StatusCode::is_client_error
is_client_error(code) == 400 <= code /\ code < 500

\* a faulty variant of error_for_status: a server error is let through
error_for_status_client_only(code) == 400 <= code /\ code < 500

\* Response::error_for_status_ref: an error for a 4xx or 5xx status
error_for_status(code) == 400 <= code /\ code < 600

\* enum Error: the variant and reqwest::Error::status() of the error it wraps
HttpStatus(code) == [kind |-> "HttpStatus", status |-> Some(code)]
Reqwest(status) == [kind |-> "Reqwest", status |-> status]
ResponseJson == [kind |-> "ResponseJson", status |-> None]
ExactlyOne == [kind |-> "ExactlyOne", status |-> None]

\* a faulty variant of is_invalid_oauth_token: no error counts
is_invalid_oauth_token_never(e) == FALSE

\* a faulty variant of is_invalid_oauth_token: every error counts
is_invalid_oauth_token_any_error(e) == TRUE

\* a faulty variant of is_invalid_oauth_token: every client error counts
is_invalid_oauth_token_any_client_error(e) ==
  CASE e.kind \in {"HttpStatus", "Reqwest"} ->
         IF e.status.some THEN is_client_error(e.status.v) ELSE FALSE
    [] OTHER -> FALSE

is_invalid_oauth_token(e) ==
  CASE e.kind \in {"HttpStatus", "Reqwest"} ->
         IF e.status.some THEN e.status.v = UNAUTHORIZED ELSE FALSE
    [] OTHER -> FALSE

\* a faulty variant of is_spurious_network_error: the negation is lost
is_spurious_network_error_not_negated(e) ==
  CASE e.kind \in {"HttpStatus", "Reqwest"} ->
         IF e.status.some THEN is_client_error(e.status.v) ELSE FALSE
    [] OTHER -> FALSE

is_spurious_network_error(e) ==
  CASE e.kind \in {"HttpStatus", "Reqwest"} ->
         IF e.status.some THEN ~is_client_error(e.status.v) ELSE FALSE
    [] OTHER -> FALSE

\* ------------------------------------------------------------- credentials
\* Credentials(EitherOrBoth<(client_secret, scopes), oauth_token>)
Left(l) == [tag |-> "Left", left |-> l]
Right(r) == [tag |-> "Right", right |-> r]
Both(l, r) == [tag |-> "Both", left |-> l, right |-> r]

Secrets == {"secret"}
ScopeLists == {"a b"}
InitTokens == {"tok0"}
MintTokens == {"tok1", "tok2"}

from_client_secret(client_secret, scopes) == Left(<<client_secret, scopes>>)
from_oauth_token(oauth_token) == Right(oauth_token)
from_client_secret_and_oauth_token(client_secret, scopes, oauth_token) ==
  Both(<<client_secret, scopes>>, oauth_token)

Constructed ==
  {from_client_secret(s, sc) : s \in Secrets, sc \in ScopeLists}
    \cup {from_oauth_token(tk) : tk \in InitTokens}
    \cup {from_client_secret_and_oauth_token(x[1], x[2], x[3]) :
            x \in Secrets \X ScopeLists \X InitTokens}

\* a faulty variant of set_token: the rebuilt value keeps the placeholder's shape
set_token_drops_secret(c, token) == Right(token)

\* a faulty variant of set_token: a store without a token is left as it is
set_token_left_not_cached(c, token) ==
  CASE c.tag = "Left" -> c
    [] c.tag = "Both" -> Both(c.left, token)
    [] c.tag = "Right" -> Right(token)

\* a faulty variant of set_token: the old token is kept when one is cached
set_token_keeps_old(c, token) ==
  CASE c.tag = "Left" -> Both(c.left, token)
    [] c.tag = "Both" -> Both(c.left, c.right)
    [] c.tag = "Right" -> Right(token)

\* Credentials::set_token: what mem::replace leaves in the store while the
\* old value is matched, EitherOrBoth::Right(String::default())
Placeholder == Right("")

\* Credentials::set_token: the value assigned to the store, from the old
\* value mem::replace took out of it
set_token(c, token) ==
  LET old == c
  IN CASE old.tag \in {"Left", "Both"} -> Both(old.left, token)
       [] old.tag = "Right" -> Right(token)

\* --------------------------------------------------------------- the server
\* A page as it is on the wire: data, and the pagination object, which may be
\* absent, and whose cursor may be absent (or null)
Cursors == {"", "c1"}
WirePaginations == {None, Some(None)} \cup {Some(Some(c)) : c \in Cursors}
PageData == UNION {[1..n -> Items] : n \in 0..MaxPageLen}
Pages == [data : PageData, pagination : WirePaginations]
UnitBody == [data |-> <<>>, pagination |-> None]

\* enum Cursor
CStart == [c |-> "Start"]
CAt(cursor) == [c |-> "At", cursor |-> cursor]
CEnd == [c |-> "End"]

\* a faulty variant of cursor_query: At contributes no parameter
cursor_query_at_without_after(cursor) ==
  CASE cursor.c = "Start" -> Some(<<>>)
    [] cursor.c = "At" -> Some(<<>>)
    [] cursor.c = "End" -> None

\* a faulty variant of cursor_query: End starts over instead of breaking the loop
cursor_query_end_restarts(cursor) ==
  CASE cursor.c = "Start" -> Some(<<>>)
    [] cursor.c = "At" -> Some(<< <<"after", cursor.cursor>> >>)
    [] cursor.c = "End" -> Some(<<>>)

\* Cursor::query
cursor_query(cursor) ==
  CASE cursor.c = "Start" -> Some(<<>>)
    [] cursor.c = "At" -> Some(<< <<"after", cursor.cursor>> >>)
    [] cursor.c = "End" -> None

\* impl From<Option<String>> for Cursor
cursor_from(cursor) == IF cursor.some THEN CAt(cursor.v) ELSE CEnd

\* Deserialize for PaginatedResult: a missing pagination object is
\* PaginationInfo::default(), whose cursor is Cursor::default() = End
PaginatedResult(body) ==
  [data |-> body.data,
   pagination |-> [cursor |-> IF body.pagination.some
                              THEN cursor_from(body.pagination.v)
                              ELSE CEnd]]

\* the fixed query parameters a stream may be created with
FixedParams == {<< <<"first", "2">> >>}

\* the bodies the server may send for an operation's data request
Bodies(op) == IF op = "pull" THEN Pages ELSE {UnitBody}

ErrorStatuses == {401, 404, 429, 500}
Resets == {None} \cup {Some(x) : x \in 1..MaxTime}

\* What comes back for a data request: no response at all ("transport"), an
\* error status, a 2xx whose body cannot be read or parsed, or a 2xx with a
\* decodable body.  A response may carry a rate-limit reset timestamp.
DataOutcomes(op) ==
  {[kind |-> "transport", status |-> 0, reset |-> None, body |-> UnitBody]}
    \cup {[kind |-> "status", status |-> s, reset |-> r, body |-> UnitBody] :
            s \in ErrorStatuses, r \in Resets}
    \cup {[kind |-> k, status |-> 200, reset |-> r, body |-> UnitBody] :
            k \in {"readfail", "badjson"}, r \in Resets}
    \cup {[kind |-> "ok", status |-> 200, reset |-> r, body |-> b] :
            b \in Bodies(op), r \in Resets}

MintErrorStatuses == {400, 500}
MintOutcomes ==
  {[kind |-> "transport", status |-> 0, token |-> ""]}
    \cup {[kind |-> "status", status |-> s, token |-> ""] : s \in MintErrorStatuses}
    \cup {[kind |-> k, status |-> 200, token |-> ""] : k \in {"readfail", "badjson"}}
    \cup {[kind |-> "ok", status |-> 200, token |-> tk] : tk \in MintTokens}

\* a faulty variant of json_with_text_in_error: a failed read or parse goes unnoticed
json_with_text_in_error_always_ok(out, value) == Ok(value)

\* ResponseExt::json_with_text_in_error on a 2xx response
json_with_text_in_error(out, value) ==
  CASE out.kind = "readfail" -> Err(Reqwest(None))
    [] out.kind = "badjson" -> Err(ResponseJson)
    [] OTHER -> Ok(value)

\* the errors a caller may pass to get_oauth_token
CallerErrors == {HttpStatus(401), HttpStatus(404), Reqwest(None), ResponseJson}

\* ------------------------------------------------------------------- state
VARIABLES
  credentials,       \* Client::credentials, the value inside the RwLock
  rate_limit_reset,  \* Client::rate_limit_reset
  readers,           \* tasks holding a read guard of the RwLock
  writer,            \* the task holding the write guard, 0 when none
  waitq,             \* tasks queued for the RwLock, in arrival order
  now,               \* Utc::now()
  pc,                \* each task's position
  loc,               \* each task's locals
  ncalls,            \* calls started so far
  credentials0,      \* history: the credentials the client was constructed with
  fresh,             \* history: the tasks whose set_token was the last one
  committed,         \* history: the store as the last completed set_token left it
  sig,               \* history: the reset timestamp of the last response that carried one
  oc,                \* history: each task's latest get_oauth_token call
  rc,                \* history: each task's latest top-level call
  prev,              \* history: each task's previous get_raw call
  ustate,            \* TryUnfold::state of the pagination stream
  inner,             \* TryFlatten::next, the items of the current page
  sargs,             \* the arguments stream was called with
  fetched,           \* history: the page fetches of the stream, with their results
  yielded,           \* history: what the stream has yielded
  ended              \* history: the stream has returned None

clientVars == <<credentials, rate_limit_reset, readers, writer, waitq, now>>
taskVars == <<pc, loc, ncalls>>
histVars == <<credentials0, fresh, committed, sig, oc, rc, prev>>
streamVars == <<ustate, inner, sargs, fetched, yielded, ended>>
vars == <<clientVars, taskVars, histVars, streamVars>>

\* ------------------------------------------------------------------ RwLock
\* tokio::sync::RwLock: readers share, a writer excludes, waiters are served
\* in arrival order
Lock == [r |-> readers, w |-> writer, q |-> waitq]

RECURSIVE Drain(_)
Drain(L) ==
  IF L.q = <<>> THEN L
  ELSE LET h == Head(L.q)
       IN IF h.mode = "read" /\ L.w = 0
          THEN Drain([r |-> L.r \cup {h.t}, w |-> L.w, q |-> Tail(L.q)])
          ELSE IF h.mode = "write" /\ L.w = 0 /\ L.r = {}
          THEN [r |-> L.r, w |-> h.t, q |-> Tail(L.q)]
          ELSE L

\* a faulty variant of Acquire: a read guard is handed out without looking at
\* the writer or the queue
Acquire_read_unguarded(L, t, mode) ==
  IF mode = "read"
  THEN [L EXCEPT !.r = @ \cup {t}]
  ELSE Drain([L EXCEPT !.q = Append(L.q, [t |-> t, mode |-> mode])])

\* RwLock::read / RwLock::write: taken at once when free and nobody waits
Acquire(L, t, mode) ==
  Drain([L EXCEPT !.q = Append(L.q, [t |-> t, mode |-> mode])])

\* a faulty variant of Release: a read guard is never given back
Release_keeps_read(L, t) ==
  Drain([r |-> L.r, w |-> IF L.w = t THEN 0 ELSE L.w, q |-> L.q])

\* dropping a guard
Release(L, t) ==
  Drain([r |-> L.r \ {t}, w |-> IF L.w = t THEN 0 ELSE L.w, q |-> L.q])

\* dropping a future that waits for the lock or holds a guard: it leaves the
\* queue and its guard is dropped
DropFuture(L, t) ==
  Drain([r |-> L.r \ {t}, w |-> IF L.w = t THEN 0 ELSE L.w,
         q |-> SelectSeq(L.q, LAMBDA e : e.t # t)])

SetLock(L) == readers' = L.r /\ writer' = L.w /\ waitq' = L.q

\* ------------------------------------------------------------------- tasks
NoLoc == [op |-> "none", from_error |-> None, ret |-> "top", urlOk |-> TRUE,
          query |-> <<>>, token |-> "", new_token |-> "", old |-> None]
NoOc == [arg |-> None, seen |-> None, seenFresh |-> FALSE, mints |-> 0,
         minted |-> None, mresp |-> None, res |-> None, post |-> None]
NoRc == [op |-> "none", arg |-> None, gateT |-> None, log |-> <<>>, resps |-> <<>>,
         cooled |-> FALSE, reauths |-> <<>>, res |-> None]

\* history: a response as the call's history keeps it
Resp(out) == [kind |-> out.kind, status |-> out.status]

\* a request as the history keeps it
MintReq == [type |-> "mint", token |-> "", query |-> <<>>]
DataReq(token, query) == [type |-> "data", token |-> token, query |-> query]

\* history: the request is sent while a reset timestamp that was signalled
\* before the call began is still in the future
Cooled(r) == r.cooled \/ (r.gateT.some /\ now < r.gateT.v)

InitShared ==
  /\ credentials \in Constructed
  /\ credentials0 = credentials
  /\ committed = credentials
  /\ rate_limit_reset = None
  /\ readers = {} /\ writer = 0 /\ waitq = <<>>
  /\ now = 0
  /\ pc = [t \in Tasks |-> "idle"]
  /\ loc = [t \in Tasks |-> NoLoc]
  /\ ncalls = 0
  /\ fresh = {}
  /\ sig = None
  /\ oc = [t \in Tasks |-> NoOc]
  /\ rc = [t \in Tasks |-> NoRc]
  /\ prev = [t \in Tasks |-> None]
  /\ inner = None
  /\ fetched = <<>> /\ yielded = <<>> /\ ended = FALSE

\* Client::new, and no pagination stream
Init ==
  /\ InitShared
  /\ ustate = None
  /\ sargs = [uri_ok |-> TRUE, query |-> <<>>]

\* Client::new, and stream(client, uri, query): try_unfold(Cursor::Start, ..)
InitStream ==
  /\ InitShared
  /\ ustate = Some(CStart)
  /\ sargs \in [uri_ok : BOOLEAN, query : FixedParams]

\* Utc::now() advances
Tick ==
  /\ now < MaxTime
  /\ now' = now + 1
  /\ UNCHANGED <<credentials, rate_limit_reset, readers, writer, waitq>>
  /\ UNCHANGED <<taskVars, histVars, streamVars>>

\* the top-level call returns `res`
Finished(t, res, r) ==
  /\ pc' = [pc EXCEPT ![t] = "done"]
  /\ rc' = [rc EXCEPT ![t] = [r EXCEPT !.res = Some(res)]]

\* get_oauth_token returns `res` to the place it was called from; `l`, `o`
\* and `r` are the task's locals and histories as the step leaves them
OAuthReturn(t, res, l, o, r) ==
  /\ oc' = [oc EXCEPT ![t] = [o EXCEPT !.res = Some(res), !.post = Some(credentials')]]
  /\ CASE l.ret = "top" ->
            /\ loc' = [loc EXCEPT ![t] = l]
            /\ Finished(t, res, r)
       [] l.ret = "raw189" ->
            \* let mut token = ...?; let mut url = url.into_url()?;
            IF res.ok /\ l.urlOk
            THEN /\ loc' = [loc EXCEPT ![t] = [l EXCEPT !.token = res.v]]
                 /\ pc' = [pc EXCEPT ![t] = "gate"]
                 /\ rc' = [rc EXCEPT ![t] = r]
            ELSE /\ loc' = [loc EXCEPT ![t] = l]
                 /\ Finished(t, IF res.ok THEN Err(Reqwest(None)) ELSE res, r)
       [] l.ret = "raw216" ->
            \* token = self.get_oauth_token(Some(e)).await?;
            IF res.ok
            THEN /\ loc' = [loc EXCEPT ![t] = [l EXCEPT !.token = res.v]]
                 /\ pc' = [pc EXCEPT ![t] = "send2"]
                 /\ rc' = [rc EXCEPT ![t] = r]
            ELSE /\ loc' = [loc EXCEPT ![t] = l]
                 /\ Finished(t, res, r)

\* history: what a later call of the task needs of the call it has finished:
\* the token a get_raw call minted and cached when every request of it succeeded
Summary(t) ==
  IF /\ pc[t] = "done" /\ rc[t].op = "get_raw" /\ rc[t].res.v.ok
     /\ Len(rc[t].resps) = 1 /\ oc[t].minted.some
  THEN Some(oc[t].minted.v)
  ELSE None

\* a caller calls Client::get_oauth_token(from_error)
CallGetOAuthToken(t) ==
  /\ pc[t] \in {"idle", "done", "cancelled"}
  /\ ncalls < MaxCalls
  /\ prev' = [prev EXCEPT ![t] = Summary(t)]
  /\ oc' = [oc EXCEPT ![t] = NoOc]
  /\ \E fe \in {None} \cup {Some(e) : e \in CallerErrors} :
       /\ loc' = [loc EXCEPT ![t] = [NoLoc EXCEPT !.op = "get_oauth_token",
                                                  !.from_error = fe, !.ret = "top"]]
       /\ rc' = [rc EXCEPT ![t] = [NoRc EXCEPT !.op = "get_oauth_token", !.arg = fe]]
  /\ pc' = [pc EXCEPT ![t] = "oauth"]
  /\ ncalls' = ncalls + 1
  /\ UNCHANGED <<clientVars, credentials0, committed, fresh, sig, streamVars>>

\* a caller calls Client::get_raw (get_query, get_abs_query)
CallGetRaw(t) ==
  /\ pc[t] \in {"idle", "done", "cancelled"}
  /\ ncalls < MaxCalls
  /\ prev' = [prev EXCEPT ![t] = Summary(t)]
  /\ oc' = [oc EXCEPT ![t] = NoOc]
  /\ \E u \in BOOLEAN :
       loc' = [loc EXCEPT ![t] = [NoLoc EXCEPT !.op = "get_raw", !.ret = "raw189",
                                               !.urlOk = u]]
  /\ rc' = [rc EXCEPT ![t] = [NoRc EXCEPT !.op = "get_raw",
                 !.gateT = IF sig.some /\ now < sig.v THEN sig ELSE None]]
  /\ pc' = [pc EXCEPT ![t] = "oauth"]
  /\ ncalls' = ncalls + 1
  /\ UNCHANGED <<clientVars, credentials0, committed, fresh, sig, streamVars>>

\* get_oauth_token, entry: non-auth errors are returned transparently,
\* otherwise the read lock is requested
OAuthEnter(t) ==
  /\ pc[t] = "oauth"
  /\ UNCHANGED <<credentials, rate_limit_reset, now, ncalls>>
  /\ LET l == loc[t]
         o == [NoOc EXCEPT !.arg = l.from_error]
     IN IF l.from_error.some /\ ~is_invalid_oauth_token(l.from_error.v)
        THEN /\ OAuthReturn(t, Err(l.from_error.v), l, o, rc[t])
             /\ UNCHANGED <<readers, writer, waitq>>
        ELSE /\ SetLock(Acquire(Lock, t, "read"))
             /\ pc' = [pc EXCEPT ![t] = "read"]
             /\ oc' = [oc EXCEPT ![t] = o]
             /\ UNCHANGED <<loc, rc>>
  /\ UNCHANGED <<credentials0, committed, fresh, sig, prev, streamVars>>

\* a faulty variant of oauth_match: the (None, Both(_, oauth_token)) pattern is missing
oauth_match_no_both_arm(from_error, c) ==
  CASE ~from_error.some /\ c.tag = "Right" -> "cached"
    [] from_error.some /\ c.tag = "Right" -> "unable"
    [] OTHER -> "reauth"

\* a faulty variant of oauth_match: an auth error always leads to a mint request
oauth_match_always_reauth(from_error, c) ==
  CASE ~from_error.some /\ c.tag \in {"Right", "Both"} -> "cached"
    [] OTHER -> "reauth"

\* get_oauth_token, the arms of the match on (from_error, credentials)
oauth_match(from_error, c) ==
  CASE ~from_error.some /\ c.tag \in {"Right", "Both"} -> "cached"
    [] from_error.some /\ c.tag = "Right" -> "unable"
    [] OTHER -> "reauth"

\* get_oauth_token, the match under the read guard: the cached token, the
\* error handed back, or the mint request (sent with the guard still held)
OAuthRead(t) ==
  /\ pc[t] = "read"
  /\ UNCHANGED <<credentials, rate_limit_reset, now, ncalls>>
  /\ t \in readers
  /\ LET l == loc[t]
         c == credentials
         o == [oc[t] EXCEPT !.seen = Some(c), !.seenFresh = (t \in fresh)]
         arm == oauth_match(l.from_error, c)
     IN CASE arm = "cached" ->
               /\ SetLock(Release(Lock, t))
               /\ OAuthReturn(t, Ok(c.right), l, o, rc[t])
          [] arm = "unable" ->
               /\ SetLock(Release(Lock, t))
               /\ OAuthReturn(t, Err(l.from_error.v), l, o, rc[t])
          [] OTHER ->
               /\ pc' = [pc EXCEPT ![t] = "mint"]
               /\ oc' = [oc EXCEPT ![t] = [o EXCEPT !.mints = @ + 1]]
               /\ rc' = [rc EXCEPT ![t] = [@ EXCEPT !.log = Append(@, MintReq),
                                                    !.cooled = Cooled(rc[t])]]
               /\ UNCHANGED <<readers, writer, waitq, loc>>
  /\ UNCHANGED <<credentials0, committed, fresh, sig, prev, streamVars>>

\* get_oauth_token, the mint request is answered: the read guard is dropped;
\* a failure is returned, a decoded token goes on to the write lock
MintResponse(t) ==
  /\ pc[t] = "mint"
  /\ UNCHANGED <<credentials, rate_limit_reset, now, ncalls>>
  /\ \E out \in MintOutcomes :
       LET l == loc[t]
           freed == Release(Lock, t)
           decoded == json_with_text_in_error(out, out.token)
           o == [oc[t] EXCEPT !.mresp = Some(Resp(out))]
       IN CASE out.kind = "transport" ->
                 /\ SetLock(freed)
                 /\ OAuthReturn(t, Err(Reqwest(None)), l, o, rc[t])
            [] out.kind # "transport" /\ error_for_status(out.status) ->
                 /\ SetLock(freed)
                 /\ OAuthReturn(t, Err(HttpStatus(out.status)), l, o, rc[t])
            [] OTHER ->
                 IF decoded.ok
                 THEN /\ SetLock(Acquire(freed, t, "write"))
                      /\ loc' = [loc EXCEPT ![t] = [l EXCEPT !.new_token = decoded.v]]
                      /\ oc' = [oc EXCEPT ![t] = [o EXCEPT !.minted = Some(decoded.v)]]
                      /\ pc' = [pc EXCEPT ![t] = "write"]
                      /\ UNCHANGED rc
                 ELSE /\ SetLock(freed)
                      /\ OAuthReturn(t, decoded, l, o, rc[t])
  /\ UNCHANGED <<credentials0, committed, fresh, sig, prev, streamVars>>

\* get_oauth_token, the write guard is granted and set_token begins:
\* mem::replace takes the old value out and leaves the placeholder
OAuthWrite(t) ==
  /\ pc[t] = "write"
  /\ writer = t
  /\ credentials' = Placeholder
  /\ loc' = [loc EXCEPT ![t] = [@ EXCEPT !.old = Some(credentials)]]
  /\ pc' = [pc EXCEPT ![t] = "store"]
  /\ UNCHANGED <<rate_limit_reset, readers, writer, waitq, now, ncalls>>
  /\ UNCHANGED <<histVars, streamVars>>

\* get_oauth_token, set_token ends: the rebuilt value is assigned, the write
\* guard is dropped and the new token is returned
OAuthStore(t) ==
  /\ pc[t] = "store"
  /\ credentials' = set_token(loc[t].old.v, loc[t].new_token)
  /\ fresh' = {t}
  /\ committed' = credentials'
  /\ SetLock(Release(Lock, t))
  /\ OAuthReturn(t, Ok(loc[t].new_token), [loc[t] EXCEPT !.old = None], oc[t], rc[t])
  /\ UNCHANGED <<rate_limit_reset, now, ncalls>>
  /\ UNCHANGED <<credentials0, sig, prev, streamVars>>

\* get_raw, "wait for rate limit": (rate_limit_reset - Utc::now()).to_std()
\* is Ok for a duration >= 0, and then the task sleeps and checks again
RateLimited ==
  rate_limit_reset.some /\ rate_limit_reset.v - now >= 0

\* url.query_pairs_mut().extend_pairs(query)
QueryOf(t) == loc[t].query

\* get_raw, the loop: past the rate-limit gate, the first request is sent
SendFirst(t) ==
  /\ pc[t] = "gate"
  /\ ~RateLimited
  /\ pc' = [pc EXCEPT ![t] = "data1"]
  /\ rc' = [rc EXCEPT ![t] = [@ EXCEPT
               !.log = Append(@, DataReq(loc[t].token, QueryOf(t))),
               !.cooled = Cooled(rc[t])]]
  /\ UNCHANGED <<clientVars, loc, ncalls>>
  /\ UNCHANGED <<credentials0, committed, fresh, sig, oc, prev, streamVars>>

\* send().map_err(Error::Reqwest).and_then(error_for_status_ref ...)
response_data(out) ==
  CASE out.kind = "transport" -> Err(Reqwest(None))
    [] out.kind # "transport" /\ error_for_status(out.status) -> Err(HttpStatus(out.status))
    [] OTHER -> Ok(out)

\* get_raw, the first request is answered
FirstResponse(t) ==
  /\ pc[t] = "data1"
  /\ \E out \in DataOutcomes(loc[t].op) :
       LET rd == response_data(out)
           r == [rc[t] EXCEPT !.resps = Append(@, Resp(out))]
       IN /\ sig' = IF out.reset.some THEN out.reset ELSE sig
          /\ IF rd.ok
             THEN \* break data.json_with_text_in_error().await?
                  /\ Finished(t, json_with_text_in_error(out, out.body), r)
                  /\ UNCHANGED loc
             ELSE IF is_spurious_network_error(rd.e)
             THEN \* simply try again
                  /\ pc' = [pc EXCEPT ![t] = "send2"]
                  /\ rc' = [rc EXCEPT ![t] = r]
                  /\ UNCHANGED loc
             ELSE IF is_invalid_oauth_token(rd.e)
             THEN /\ pc' = [pc EXCEPT ![t] = "oauth"]
                  /\ loc' = [loc EXCEPT ![t] = [@ EXCEPT !.from_error = Some(rd.e),
                                                         !.ret = "raw216"]]
                  /\ rc' = [rc EXCEPT ![t] = [r EXCEPT !.reauths = Append(@, rd.e)]]
             ELSE /\ Finished(t, rd, r)
                  /\ UNCHANGED loc
  /\ UNCHANGED <<clientVars, ncalls>>
  /\ UNCHANGED <<credentials0, committed, fresh, oc, prev, streamVars>>

\* get_raw, the second request is sent (no rate-limit check on this path)
SendSecond(t) ==
  /\ pc[t] = "send2"
  /\ pc' = [pc EXCEPT ![t] = "data2"]
  /\ rc' = [rc EXCEPT ![t] = [@ EXCEPT
               !.log = Append(@, DataReq(loc[t].token, QueryOf(t))),
               !.cooled = Cooled(rc[t])]]
  /\ UNCHANGED <<clientVars, loc, ncalls>>
  /\ UNCHANGED <<credentials0, committed, fresh, sig, oc, prev, streamVars>>

\* get_raw, the second request is answered: whatever it is, the call ends
SecondResponse(t) ==
  /\ pc[t] = "data2"
  /\ \E out \in DataOutcomes(loc[t].op) :
       LET r == [rc[t] EXCEPT !.resps = Append(@, Resp(out))]
       IN /\ sig' = IF out.reset.some THEN out.reset ELSE sig
          /\ CASE out.kind = "transport" -> Finished(t, Err(Reqwest(None)), r)
               [] out.kind # "transport" /\ error_for_status(out.status) ->
                    Finished(t, Err(HttpStatus(out.status)), r)
               [] OTHER -> Finished(t, json_with_text_in_error(out, out.body), r)
  /\ UNCHANGED <<clientVars, loc, ncalls>>
  /\ UNCHANGED <<credentials0, committed, fresh, oc, prev, streamVars>>

\* a faulty variant of IsSuspended: the future can be dropped between any two steps
IsSuspended_anywhere(t) == pc[t] \notin {"idle", "done", "cancelled"}

\* the await points of get_raw and get_oauth_token: the rate-limit sleep, the
\* lock acquisitions, the mint request and the data requests with their body
\* reads; set_token has none
IsSuspended(t) ==
  CASE pc[t] = "gate" -> RateLimited
    [] OTHER -> pc[t] \in {"read", "mint", "write", "data1", "data2"}

\* the caller drops the future of its call at an await point
Cancel(t) ==
  /\ IsSuspended(t)
  /\ SetLock(DropFuture(Lock, t))
  /\ pc' = [pc EXCEPT ![t] = "cancelled"]
  /\ loc' = [loc EXCEPT ![t] = NoLoc]
  /\ oc' = [oc EXCEPT ![t] = NoOc]
  /\ rc' = [rc EXCEPT ![t] = NoRc]
  /\ UNCHANGED <<credentials, rate_limit_reset, now, ncalls>>
  /\ UNCHANGED <<credentials0, fresh, committed, sig, prev, streamVars>>

Internal(t) ==
  \/ OAuthEnter(t)
  \/ OAuthRead(t)
  \/ MintResponse(t)
  \/ OAuthWrite(t)
  \/ OAuthStore(t)
  \/ SendFirst(t)
  \/ FirstResponse(t)
  \/ SendSecond(t)
  \/ SecondResponse(t)

Next ==
  \/ Tick
  \/ \E t \in Tasks : CallGetOAuthToken(t)
  \/ \E t \in Tasks : CallGetRaw(t)
  \/ \E t \in Tasks : Internal(t)
  \/ \E t \in Tasks : Cancel(t)

Spec == Init /\ [][Next]_vars

\* the steps of Next but the clock's: no timestamp is ever set, so the
\* rate-limit gate is open at every time and the clock decides nothing here
NextFair ==
  \/ \E t \in Tasks : CallGetOAuthToken(t)
  \/ \E t \in Tasks : CallGetRaw(t)
  \/ \E t \in Tasks : Internal(t)
  \/ \E t \in Tasks : Cancel(t)

\* the client under the scheduling the runtime gives: a task that can take
\* its next step (its lock is granted, its request is answered) eventually
\* takes it; nothing obliges a caller to start or to cancel a call
FairSpec == Init /\ [][NextFair]_vars /\ \A t \in Tasks : WF_vars(Internal(t))

\* ------------------------------------------------------ pagination stream
\* the task that consumes the stream
Consumer == 1

\* a faulty variant of try_next: the rest of the current page is given up
try_next_drops_page(page) == None

\* TryFlatten::poll_next on the current page (an iterator over its items):
\* the next item if one is left
try_next(page) ==
  IF page.some /\ page.v # <<>> THEN Some(Head(page.v)) ELSE None

\* the consumer polls the stream (TryFlatten::poll_next): the next item of
\* the current page, or else the step function of try_unfold, which ends the
\* stream at Cursor::End and otherwise starts the fetch of the next page
Pull(t) ==
  /\ pc[t] = "idle"
  /\ IF try_next(inner).some
     THEN /\ yielded' = Append(yielded, Ok(try_next(inner).v))
          /\ inner' = Some(Tail(inner.v))
          /\ UNCHANGED <<ustate, fetched, ended, pc, loc, rc, oc>>
     ELSE /\ inner' = None
          /\ ustate' = None
          /\ UNCHANGED yielded
          /\ IF ustate.some /\ cursor_query(ustate.v).some
             THEN LET params == sargs.query \o cursor_query(ustate.v).v
                  IN /\ Len(fetched) < MaxPages
                     /\ fetched' = Append(fetched, [query |-> params, res |-> None])
                     /\ loc' = [loc EXCEPT ![t] = [NoLoc EXCEPT !.op = "pull",
                                    !.ret = "raw189", !.urlOk = sargs.uri_ok,
                                    !.query = params]]
                     /\ rc' = [rc EXCEPT ![t] = [NoRc EXCEPT !.op = "pull",
                                    !.gateT = IF sig.some /\ now < sig.v THEN sig ELSE None]]
                     /\ oc' = [oc EXCEPT ![t] = NoOc]
                     /\ pc' = [pc EXCEPT ![t] = "oauth"]
                     /\ UNCHANGED ended
             ELSE /\ ended' = TRUE
                  /\ UNCHANGED <<fetched, pc, loc, rc, oc>>
  /\ UNCHANGED <<clientVars, ncalls, credentials0, committed, fresh, sig, prev, sargs>>

\* a faulty variant of stream_step: a page without items is passed on with its cursor
stream_step_keeps_empty_page(res) ==
  IF ~res.ok THEN Err(res.e)
  ELSE LET page == PaginatedResult(res.v)
       IN Ok(Some([items |-> page.data, state |-> page.pagination.cursor]))

\* a faulty variant of stream_step: an error of the fetch ends the stream silently
stream_step_swallows_error(res) ==
  IF ~res.ok THEN Ok(None)
  ELSE LET page == PaginatedResult(res.v)
       IN IF page.data = <<>>
          THEN Ok(None)
          ELSE Ok(Some([items |-> page.data, state |-> page.pagination.cursor]))

\* the step function of try_unfold, after `client.get_raw(..).await` has
\* returned `res`: `?` passes an error on, an empty page is Ok(None), any
\* other page is Ok(Some((its items, its cursor)))
stream_step(res) ==
  IF ~res.ok THEN Err(res.e)
  ELSE LET page == PaginatedResult(res.v)
       IN IF page.data = <<>>
          THEN Ok(None)
          ELSE Ok(Some([items |-> page.data, state |-> page.pagination.cursor]))

\* the page fetch of the step function has returned: an error is yielded and
\* ends the stream, Ok(None) ends it, any other page becomes the current
\* page, its cursor the next state, and its first item is yielded (a page
\* that came through without items is skipped by try_flatten, which polls on)
PullDone(t) ==
  /\ pc[t] = "done"
  /\ loc[t].op = "pull"
  /\ LET res == rc[t].res.v
         step == stream_step(res)
     IN /\ fetched' = [fetched EXCEPT ![Len(fetched)].res = Some(res)]
        /\ IF ~step.ok
           THEN /\ yielded' = Append(yielded, Err(step.e))
                /\ UNCHANGED <<ustate, inner, ended>>
           ELSE IF ~step.v.some
           THEN /\ ended' = TRUE
                /\ UNCHANGED <<ustate, inner, yielded>>
           ELSE /\ ustate' = Some(step.v.v.state)
                /\ inner' = Some(IF step.v.v.items = <<>> THEN <<>> ELSE Tail(step.v.v.items))
                /\ yielded' = IF step.v.v.items = <<>> THEN yielded
                              ELSE Append(yielded, Ok(Head(step.v.v.items)))
                /\ UNCHANGED ended
  /\ pc' = [pc EXCEPT ![t] = "idle"]
  /\ loc' = [loc EXCEPT ![t] = NoLoc]
  /\ rc' = [rc EXCEPT ![t] = NoRc]
  /\ oc' = [oc EXCEPT ![t] = NoOc]
  /\ UNCHANGED <<clientVars, ncalls, credentials0, committed, fresh, sig, prev, sargs>>

NextStream ==
  \/ Tick
  \/ Pull(Consumer)
  \/ PullDone(Consumer)
  \/ Internal(Consumer)

SpecStream == InitStream /\ [][NextStream]_vars

\* ------------------------------------------------------------------ claims
Done(t) == pc[t] = "done"
Is401(e) == e.status = Some(401)
Is5xx(resp) == resp.kind = "status" /\ resp.status >= 500
OkResp == [kind |-> "ok", status |-> 200]
DataReqs(log) == SelectSeq(log, LAMBDA q : q.type = "data")
MintReqs(log) == SelectSeq(log, LAMBDA q : q.type = "mint")

\* what a caller gets for a response that ends its call
ResultOf(resp) ==
  CASE resp.kind = "transport" -> Err(Reqwest(None))
    [] resp.kind = "status" -> Err(HttpStatus(resp.status))
    [] resp.kind = "readfail" -> Err(Reqwest(None))
    [] resp.kind = "badjson" -> Err(ResponseJson)
    [] OTHER -> Ok(UnitBody)

\* C1: a get_oauth_token(None) call that finds a token cached (Right or Both)
\* returns exactly that token, sends no mint request and leaves the store as
\* it found it.
C1_CachedTokenNoMint ==
  \A t \in Tasks :
    (~oc[t].arg.some /\ oc[t].seen.some /\ oc[t].seen.v.tag \in {"Right", "Both"}) =>
      /\ oc[t].res.some
      /\ oc[t].res.v = Ok(oc[t].seen.v.right)
      /\ oc[t].mints = 0
      /\ oc[t].post = oc[t].seen

C1_Witness ==
  \E t \in Tasks :
    /\ rc[t].op = "get_oauth_token" /\ Done(t)
    /\ ~oc[t].arg.some /\ oc[t].seen.some /\ oc[t].seen.v.tag = "Both"
    /\ credentials0.tag = "Left"

\* C2: a get_oauth_token(Some(401 error)) call on a Both store sends exactly
\* one mint request; when the mint succeeds the call returns the minted
\* token, the store holds the minted token right after the call, and the
\* secret and scopes are the ones it found.
C2_ReauthReplacesToken ==
  \A t \in Tasks :
    (oc[t].arg.some /\ Is401(oc[t].arg.v) /\ oc[t].seen.some /\ oc[t].seen.v.tag = "Both") =>
      /\ oc[t].mints = 1
      /\ Len(MintReqs(rc[t].log)) >= 1
      /\ (oc[t].res.some /\ oc[t].minted.some) =>
           /\ oc[t].res.v = Ok(oc[t].minted.v)
           /\ oc[t].post.v = Both(oc[t].seen.v.left, oc[t].minted.v)

C2_Witness ==
  \E t \in Tasks :
    /\ oc[t].arg.some /\ Is401(oc[t].arg.v)
    /\ oc[t].seen.some /\ oc[t].seen.v.tag = "Both"
    /\ oc[t].res.some /\ oc[t].minted.some
    /\ oc[t].minted.v # oc[t].seen.v.right

\* C3: a get_oauth_token(Some(401 error)) call on a Right store returns that
\* same error, sends no mint request and leaves the store as it found it.
C3_TokenOnlyCannotReauth ==
  \A t \in Tasks :
    (oc[t].arg.some /\ Is401(oc[t].arg.v) /\ oc[t].seen.some /\ oc[t].seen.v.tag = "Right") =>
      /\ oc[t].res.some
      /\ oc[t].res.v = Err(oc[t].arg.v)
      /\ oc[t].mints = 0
      /\ oc[t].post = oc[t].seen

C3_Witness ==
  \E t \in Tasks :
    /\ oc[t].arg.some /\ Is401(oc[t].arg.v)
    /\ oc[t].seen.some /\ oc[t].seen.v.tag = "Right"
    /\ oc[t].res.some /\ Done(t)

\* C4: in every reachable state in which the store can be read (no write
\* guard is held over it) the store has not lost its secret and has not been
\* downgraded: constructed Left it is Left or Both, constructed Both it is
\* Both, constructed Right it is Right, and the secret and scopes are the ones
\* it was constructed with.
C4_NeverDowngrades ==
  writer = 0 =>
    /\ credentials0.tag = "Left" => credentials.tag \in {"Left", "Both"}
    /\ credentials0.tag = "Both" => credentials.tag = "Both"
    /\ credentials0.tag = "Right" => credentials.tag = "Right"
    /\ credentials0.tag \in {"Left", "Both"} => credentials.left = credentials0.left

C4_Witness ==
  /\ credentials0.tag = "Left" /\ credentials.tag = "Both"
  /\ \E t \in Tasks :
       /\ rc[t].op = "get_raw" /\ Done(t)
       /\ oc[t].seen.some /\ oc[t].seen.v.tag = "Both" /\ oc[t].minted.some

\* C5: on a client whose store is Left, a get_raw call whose mint and data
\* requests all succeed sends exactly one mint request and then one data
\* request carrying the minted token; the same caller's next get_raw call,
\* with no token cached by another caller in between and its data request succeeding, sends
\* no mint request and one data request carrying the token the first call
\* cached.
C5_MintOnceThenReuse ==
  \A t \in Tasks :
    (Done(t) /\ rc[t].op = "get_raw" /\ rc[t].resps = <<OkResp>>) =>
      /\ (oc[t].seen.v.tag = "Left" /\ oc[t].minted.some) =>
           rc[t].log = <<MintReq, DataReq(oc[t].minted.v, <<>>)>>
      /\ (prev[t].some /\ oc[t].seenFresh) =>
           rc[t].log = <<DataReq(prev[t].v, <<>>)>>

C5_Witness ==
  \E t \in Tasks :
    /\ Done(t) /\ rc[t].op = "get_raw" /\ rc[t].resps = <<OkResp>>
    /\ credentials0.tag = "Left"
    /\ prev[t].some /\ oc[t].seenFresh
    /\ rc[t].res.v.ok

C7_TransportRetried ==
  \A t \in Tasks :
    (rc[t].op = "get_raw" /\ Len(rc[t].resps) = 1 /\ rc[t].resps[1].kind = "transport") =>
      ~Done(t)

\* C8 as stated: a get_raw call that begins while a signalled rate-limit
\* reset timestamp is in the future sends no request, mint or data, before
\* that instant.
C8_NoSendBeforeReset ==
  \A t \in Tasks : rc[t].op = "get_raw" => ~rc[t].cooled

\* C9 as stated: once a response to a data request has carried a reset
\* timestamp, the client's rate-limit state holds that timestamp.
C9_ResetRecorded ==
  sig.some => rate_limit_reset = sig

\* the stream's history, read as the claims speak of it
FetchDone(i) == fetched[i].res.some
NoFetchError == \A i \in 1..Len(fetched) : FetchDone(i) => fetched[i].res.v.ok
PageOf(i) == fetched[i].res.v.v
NoNextCursor(b) == ~b.pagination.some \/ ~b.pagination.v.some
LastPage(b) == b.data = <<>> \/ NoNextCursor(b)
RECURSIVE ItemsUpTo(_)
ItemsUpTo(n) ==
  IF n = 0 THEN <<>>
  ELSE ItemsUpTo(n - 1) \o (IF FetchDone(n) /\ fetched[n].res.v.ok THEN PageOf(n).data ELSE <<>>)
Rest == IF inner.some THEN inner.v ELSE <<>>
Values(y) == [i \in 1..Len(y) |-> y[i].v]

\* C10: while every page fetch succeeds, the stream yields exactly the items
\* of the pages it has fetched, in page order and in server order within each
\* page; a page is fetched only after every earlier page was decoded and was
\* neither empty nor without a next cursor (absent pagination object, absent
\* or null cursor); and the stream ends only after such a page, with all the
\* items yielded.
C10_StreamYieldsPagesInOrder ==
  NoFetchError =>
    /\ \A i \in 1..Len(yielded) : yielded[i].ok
    /\ Values(yielded) \o Rest = ItemsUpTo(Len(fetched))
    /\ \A i \in 1..(Len(fetched) - 1) : FetchDone(i) /\ ~LastPage(PageOf(i))
    /\ ended =>
         /\ Len(fetched) >= 1
         /\ FetchDone(Len(fetched))
         /\ LastPage(PageOf(Len(fetched)))
         /\ Values(yielded) = ItemsUpTo(Len(fetched))

C10_Witness ==
  /\ ended /\ NoFetchError
  /\ Len(fetched) = 3 /\ Len(yielded) = 3
  /\ Len(PageOf(1).data) = 2 /\ Len(PageOf(2).data) = 1 /\ PageOf(3).data = <<>>
  /\ ~PageOf(3).pagination.some
  /\ yielded[1].v # yielded[2].v

\* C11: a fetched page with zero items ends the stream: it is the last page
\* fetched, no fetch is in flight, nothing but the items of the earlier pages
\* has been yielded, and this is so whatever cursor the page reports and also
\* for the first page.
C11_EmptyPageEndsStream ==
  \A i \in 1..Len(fetched) :
    (FetchDone(i) /\ fetched[i].res.v.ok /\ PageOf(i).data = <<>>) =>
      /\ i = Len(fetched)
      /\ ended
      /\ pc[Consumer] = "idle"
      /\ Rest = <<>>
      /\ yielded = [j \in 1..Len(ItemsUpTo(i - 1)) |-> Ok(ItemsUpTo(i - 1)[j])]

C11_Witness ==
  /\ Len(fetched) = 1 /\ FetchDone(1) /\ fetched[1].res.v.ok
  /\ PageOf(1).data = <<>>
  /\ PageOf(1).pagination = Some(Some("c1"))
  /\ ended /\ yielded = <<>>

\* C12: when the fetch of a page returns an error, it is the last fetch of the
\* stream; the stream has yielded the items of all earlier pages and then that
\* error, nothing after it, and its next poll ends it (no unfold state and no
\* current page are left, no fetch is in flight).
C12_FetchErrorIsLastElement ==
  \A i \in 1..Len(fetched) :
    (FetchDone(i) /\ ~fetched[i].res.v.ok) =>
      /\ i = Len(fetched)
      /\ pc[Consumer] = "idle"
      /\ ustate = None /\ inner = None
      /\ yielded = [j \in 1..Len(ItemsUpTo(i - 1)) |-> Ok(ItemsUpTo(i - 1)[j])]
                     \o <<Err(fetched[i].res.v.e)>>

C12_Witness ==
  /\ Len(fetched) = 2 /\ FetchDone(2) /\ ~fetched[2].res.v.ok
  /\ Len(PageOf(1).data) = 2
  /\ Len(yielded) = 3 /\ yielded[3] = Err(HttpStatus(404))
  /\ ended

\* C13 as stated: a non-empty page whose reported cursor is the empty string
\* is the last page the stream fetches, and the cursor kept for the next step
\* is End.
C13_EmptyCursorIsEnd ==
  \A i \in 1..Len(fetched) :
    (/\ FetchDone(i) /\ fetched[i].res.v.ok
     /\ PageOf(i).data # <<>>
     /\ PageOf(i).pagination = Some(Some(""))) =>
      /\ i = Len(fetched)
      /\ (i = Len(fetched) /\ ustate.some) => ustate.v = CEnd

\* C14: the page fetches of a stream are sequential and lazy: every fetch but
\* the last one has been decoded; a fetch is in flight only while a poll of
\* the consumer is pending, and then every item of the earlier pages has been
\* yielded to the consumer and all earlier fetches succeeded; at most one
\* fetch is in flight.
C14_FetchesSequentialAndLazy ==
  LET n == Len(fetched)
      inFlight == {i \in 1..n : ~FetchDone(i)}
  IN /\ Cardinality(inFlight) <= 1
     /\ \A i \in 1..(n - 1) : FetchDone(i) /\ fetched[i].res.v.ok
     /\ (pc[Consumer] # "idle") <=> (inFlight # {})
     /\ inFlight # {} =>
          /\ Rest = <<>>
          /\ yielded = [j \in 1..Len(ItemsUpTo(n - 1)) |-> Ok(ItemsUpTo(n - 1)[j])]
     /\ \A i \in 1..(n - 1) : PageOf(i).data # <<>>

C14_Witness ==
  /\ Len(fetched) = 2 /\ ~FetchDone(2)
  /\ pc[Consumer] = "data1"
  /\ Len(PageOf(1).data) = 2 /\ Len(yielded) = 2

\* C15: a write of a minted token is atomic for readers: no task holds a read
\* guard while another holds the write guard, the placeholder is in the store
\* only while set_token runs under the write guard, and what a
\* get_oauth_token call reads under its read guard is never the placeholder:
\* it has the secret and scopes the store was constructed with whenever the
\* store was constructed with them, and its token, if any, is a whole token.
C15_WriteAtomicForReaders ==
  /\ writer # 0 => readers = {}
  /\ credentials = Placeholder => (writer # 0 /\ pc[writer] = "store")
  /\ \A t \in Tasks :
       oc[t].seen.some =>
         /\ oc[t].seen.v # Placeholder
         /\ oc[t].seen.v.tag = "Right" <=> credentials0.tag = "Right"
         /\ oc[t].seen.v.tag # "Right" => oc[t].seen.v.left = credentials0.left
         /\ oc[t].seen.v.tag # "Left" => oc[t].seen.v.right \in InitTokens \cup MintTokens

C15_Witness ==
  \E t, u \in Tasks :
    /\ t # u
    /\ pc[u] = "store" /\ credentials = Placeholder /\ credentials0.tag = "Both"
    /\ pc[t] = "read" /\ t \notin readers

\* C16: after a call was cancelled at an await point, the cancelled call
\* holds no guard and no place in the lock's queue, the rate-limit state is
\* as Client::new left it (nothing writes it), and the store, whenever no
\* write guard is held over it, is as the last completed set_token left it (or
\* as constructed): untouched or fully replaced, never the placeholder.
C16_CancelLeavesCommittedState ==
  \A t \in Tasks :
    pc[t] = "cancelled" =>
      /\ t \notin readers /\ writer # t
      /\ \A i \in 1..Len(waitq) : waitq[i].t # t
      /\ rate_limit_reset = None
      /\ writer = 0 => (credentials = committed /\ credentials # Placeholder)

C16_Witness ==
  \E t \in Tasks :
    /\ pc[t] = "cancelled" /\ ncalls = 1
    /\ fresh = {t} /\ credentials0.tag = "Left" /\ credentials.tag = "Both"

\* C17: a get_oauth_token call that waits for the write lock, or holds it,
\* holds no read guard; and every get_oauth_token call in progress, direct or
\* made by get_raw, eventually returns (or is dropped by its caller) when
\* every task that can step does so and every request is answered.
InOAuth(t) == pc[t] \in {"oauth", "read", "mint", "write", "store"}

C17_NoReadHeldForWriteAndReturns ==
  /\ [](\A t \in Tasks : pc[t] \in {"write", "store"} => t \notin readers)
  /\ \A t \in Tasks : InOAuth(t) ~> ~InOAuth(t)

C17_Witness ==
  \E t, u \in Tasks :
    /\ pc[u] = "mint" /\ u \in readers
    /\ pc[t] = "write" /\ writer # t
    /\ \E i \in 1..Len(waitq) : waitq[i] = [t |-> t, mode |-> "write"]

\* C18: a 4xx response other than 401 to a data request of get_raw ends the
\* call: it is the call's last response, the call has returned that status as
\* an HttpStatus error, the data request it answers is the last request of
\* the call (no data request and no mint request after it), and the step that
\* receives it leaves the store as it is.
IsOtherClientError(resp) ==
  resp.kind = "status" /\ 400 <= resp.status /\ resp.status < 500 /\ resp.status # 401

C18_OtherClientErrorTerminal ==
  /\ [](\A t \in Tasks : \A k \in 1..Len(rc[t].resps) :
          (rc[t].op = "get_raw" /\ IsOtherClientError(rc[t].resps[k])) =>
            /\ k = Len(rc[t].resps)
            /\ Done(t)
            /\ rc[t].res.v = Err(HttpStatus(rc[t].resps[k].status))
            /\ Len(DataReqs(rc[t].log)) = k
            /\ rc[t].log[Len(rc[t].log)].type = "data")
  /\ [][\A t \in Tasks :
          (/\ rc'[t].op = "get_raw"
           /\ Len(rc'[t].resps) = Len(rc[t].resps) + 1
           /\ IsOtherClientError(rc'[t].resps[Len(rc'[t].resps)])) =>
            /\ credentials' = credentials
            /\ readers' = readers /\ writer' = writer /\ waitq' = waitq
            /\ pc'[t] = "done"]_vars

C18_Witness ==
  \E t \in Tasks :
    /\ Done(t) /\ rc[t].op = "get_raw"
    /\ rc[t].resps = << [kind |-> "status", status |-> 404] >>
    /\ Len(rc[t].log) = 2 /\ rc[t].log[1] = MintReq
    /\ rc[t].res.v = Err(HttpStatus(404))

\* C19: a get_oauth_token(Some(e)) call with e not a 401 error returns e
\* itself as its error, has read nothing of the store and sent no mint
\* request, and the step that returns leaves the store and its lock as they
\* are; this for every store variant and every such e.
C19_OtherErrorReturnedTransparently ==
  /\ [](\A t \in Tasks :
          (oc[t].arg.some /\ ~Is401(oc[t].arg.v)) =>
            /\ oc[t].res = Some(Err(oc[t].arg.v))
            /\ oc[t].mints = 0 /\ ~oc[t].minted.some /\ ~oc[t].seen.some
            /\ rc[t].op = "get_oauth_token" =>
                 (Done(t) /\ rc[t].log = <<>> /\ rc[t].res = oc[t].res))
  /\ [][\A t \in Tasks :
          (oc'[t].arg.some /\ ~Is401(oc'[t].arg.v) /\ oc'[t] # oc[t]) =>
            /\ credentials' = credentials
            /\ readers' = readers /\ writer' = writer /\ waitq' = waitq]_vars

C19_Witness ==
  \E t \in Tasks :
    /\ Done(t) /\ rc[t].op = "get_oauth_token"
    /\ oc[t].arg = Some(Reqwest(None))
    /\ oc[t].res = Some(Err(Reqwest(None)))
    /\ credentials.tag = "Left"

\* C20: a get_oauth_token call sends at most one mint request; when the
\* answer to it is a failure (no response, an error status, a body that
\* cannot be read or parsed) the call has returned the matching error, with no
\* token minted and no further request, its caller get_raw has returned too,
\* and the step that receives the failure leaves the store as it is, drops
\* the read guard and asks for no write guard.
C20_MintAtMostOnceFailureTerminal ==
  /\ [](\A t \in Tasks :
          /\ oc[t].mints <= 1
          /\ rc[t].op = "get_oauth_token" => Len(MintReqs(rc[t].log)) <= 1
          /\ (oc[t].mresp.some /\ oc[t].mresp.v.kind # "ok") =>
               /\ oc[t].res = Some(ResultOf(oc[t].mresp.v))
               /\ ~oc[t].minted.some
               /\ Done(t) /\ rc[t].res = oc[t].res
               /\ rc[t].log[Len(rc[t].log)] = MintReq)
  /\ [][\A t \in Tasks :
          (oc'[t].mresp.some /\ ~oc[t].mresp.some /\ oc'[t].mresp.v.kind # "ok") =>
            /\ credentials' = credentials
            /\ writer' # t /\ t \notin readers'
            /\ \A i \in 1..Len(waitq') : waitq'[i].t # t]_vars

C20_Witness ==
  \E t \in Tasks :
    /\ Done(t) /\ rc[t].op = "get_raw"
    /\ oc[t].arg.some /\ oc[t].seen.some /\ oc[t].seen.v.tag = "Both"
    /\ oc[t].mresp = Some([kind |-> "status", status |-> 500])
    /\ rc[t].res.v = Err(HttpStatus(500))
    /\ credentials = credentials0

\* the 401 responses among the responses of a call
Unauthorized(resps) ==
  {k \in 1..Len(resps) : resps[k].kind = "status" /\ resps[k].status = 401}

C22_FetchQueryIsFixedThenCursor ==
  /\ \A i \in 1..Len(fetched) :
       IF i = 1
       THEN fetched[i].query = sargs.query
       ELSE /\ PageOf(i - 1).pagination.some /\ PageOf(i - 1).pagination.v.some
            /\ fetched[i].query =
                 sargs.query \o << <<"after", PageOf(i - 1).pagination.v.v>> >>
  /\ rc[Consumer].op = "pull" =>
       \A k \in 1..Len(rc[Consumer].log) :
         rc[Consumer].log[k].type = "data" =>
           rc[Consumer].log[k].query = fetched[Len(fetched)].query

C22_Witness ==
  /\ Len(fetched) = 2 /\ pc[Consumer] = "data2"
  /\ fetched[1].query = << <<"first", "2">> >>
  /\ fetched[2].query = << <<"first", "2">>, <<"after", "c1">> >>
  /\ Len(DataReqs(rc[Consumer].log)) = 2

\* C23: with no rate-limit timestamp set, a get_raw call sends at most two
\* data requests and at most two mint requests; once its second data request
\* is answered the call has returned the outcome of that answer, whatever it
\* is, with no request after it; and every get_raw call in progress
\* eventually returns (or is dropped by its caller).
InRaw(t) == rc[t].op = "get_raw" /\ pc[t] # "done"

C23_GetRawTerminatesWithinTwo ==
  /\ [](rate_limit_reset = None =>
          \A t \in Tasks :
            rc[t].op = "get_raw" =>
              /\ Len(DataReqs(rc[t].log)) <= 2
              /\ Len(MintReqs(rc[t].log)) <= 2
              /\ Len(rc[t].resps) <= Len(DataReqs(rc[t].log))
              /\ Len(rc[t].resps) = 2 =>
                   /\ Done(t)
                   /\ rc[t].res.v = ResultOf(rc[t].resps[2])
                   /\ rc[t].log[Len(rc[t].log)].type = "data")
  /\ \A t \in Tasks : InRaw(t) ~> ~InRaw(t)

C23_Witness ==
  \E t \in Tasks :
    /\ Done(t) /\ rc[t].op = "get_raw" /\ credentials0.tag = "Left"
    /\ Len(rc[t].log) = 4
    /\ rc[t].log[1] = MintReq /\ rc[t].log[3] = MintReq
    /\ Unauthorized(rc[t].resps) = {1, 2}
    /\ rc[t].res.v = Err(HttpStatus(401))

====
